---- MODULE Spec2Model ----
(***************************************************************************)
(* A model of walk (src/main.go): the depth-range parser, the traversal    *)
(* and filter callback handed to filepath.Walk, the format renderer and    *)
(* the command substitution engine.                                        *)
(*                                                                         *)
(* Strings are sequences of one-character strings, so that counting path   *)
(* separators, splitting on commas, parsing integers and scanning a format *)
(* or command template are computed as the code computes them.             *)
(***************************************************************************)
EXTENDS Integers, Sequences, FiniteSets, TLC

VARIABLES
    rangeFlag,    \* value of -n                           (main.go:23)
    statfmtFlag,  \* value of -e                           (main.go:24)
    dirFlag,      \* -d                                    (main.go:20)
    fileFlag,     \* -f                                    (main.go:21)
    exeFlag,      \* -x                                    (main.go:22)
    osArgs,       \* flag.Args(): the positional arguments (main.go:37)
    args,         \* the root arguments left of "!"        (main.go:50)
    cmd,          \* the command template                  (main.go:26)
    mindepth,     \* main.go:27
    maxdepth,     \* main.go:28
    pc,           \* position of main
    argi,         \* index of the root being walked        (main.go:54)
    rootdepth,    \* main.go:58
    stack,        \* entries filepath.Walk has still to hand to the callback
    unreadable,   \* directories whose listing fails
    stdout,       \* characters written to standard output
    shell,        \* command lines handed to /bin/sh -c
    visited       \* history: one record per callback invocation: the entry,
                  \* whether a traversal error came with it (failed), whether the
                  \* callback returned an error (err), the depth it computed,
                  \* whether it reached printPath, and what that wrote and ran

vars == <<rangeFlag, statfmtFlag, dirFlag, fileFlag, exeFlag, osArgs, args, cmd,
          mindepth, maxdepth, pc, argi, rootdepth, stack, unreadable, stdout,
          shell, visited>>

(***************************************************************************)
(* Bounds                                                                  *)
(***************************************************************************)
\* longest -n value enumerated when the parser is checked on its own
MaxSpecLen == 5
\* largest depth bound written in a -n value during a walk
MaxBound == 2
\* longest -e format string enumerated when the renderer is checked on its own
MaxFmtLen == 3
\* longest command template enumerated when the expansion is checked on its own
MaxTplLen == 4

(***************************************************************************)
(* Strings                                                                 *)
(***************************************************************************)
SEP == "/"

SeqsUpTo(A, n) == UNION {[1..k -> A] : k \in 0..n}

RECURSIVE Flatten(_)
Flatten(ss) == IF ss = <<>> THEN <<>> ELSE Head(ss) \o Flatten(Tail(ss))

\* strings.Count(s, c) for a one-character c
Count(s, c) == Cardinality({i \in 1..Len(s) : s[i] = c})

HasSuffix(s, c) == Len(s) > 0 /\ s[Len(s)] = c

HasPrefix(s, c) == Len(s) > 0 /\ s[1] = c

\* strings.Split(s, c) for a one-character c: never fewer than one part
RECURSIVE SplitAcc(_, _, _)
SplitAcc(s, c, cur) ==
    IF s = <<>> THEN <<cur>>
    ELSE IF Head(s) = c THEN <<cur>> \o SplitAcc(Tail(s), c, <<>>)
    ELSE SplitAcc(Tail(s), c, Append(cur, Head(s)))

Split(s, c) == SplitAcc(s, c, <<>>)

\* strings.Join(parts, c)
RECURSIVE JoinWith(_, _)
JoinWith(parts, c) ==
    IF parts = <<>> THEN <<>>
    ELSE IF Len(parts) = 1 THEN parts[1]
    ELSE parts[1] \o <<c>> \o JoinWith(Tail(parts), c)

Digits == <<"0", "1", "2", "3", "4", "5", "6", "7", "8", "9">>

IsDigit(c) == \E i \in 1..10 : Digits[i] = c

DigitVal(c) == (CHOOSE i \in 1..10 : Digits[i] = c) - 1

RECURSIVE ParseUint(_, _)
ParseUint(s, acc) ==
    IF s = <<>> THEN acc ELSE ParseUint(Tail(s), acc * 10 + DigitVal(Head(s)))

\* strconv.Atoi: an optional sign, then one or more decimal digits; 0 and an
\* error otherwise.  (The inputs are far too short to leave the int range.)
Atoi(s) ==
    LET signed == Len(s) > 0 /\ s[1] \in {"+", "-"}
        body   == IF signed THEN Tail(s) ELSE s
        bad    == body = <<>> \/ \E i \in 1..Len(body) : ~IsDigit(body[i])
        mag    == ParseUint(body, 0)
    IN  IF bad THEN [err |-> TRUE, n |-> 0]
        ELSE [err |-> FALSE, n |-> IF s[1] = "-" THEN 0 - mag ELSE mag]

\* the decimal rendering fmt gives an integer (%d, fmt.Sprint)
RECURSIVE UintStr(_)
UintStr(n) == IF n < 10 THEN <<Digits[n + 1]>>
              ELSE UintStr(n \div 10) \o <<Digits[(n % 10) + 1]>>

Itoa(n) == IF n < 0 THEN <<"-">> \o UintStr(0 - n) ELSE UintStr(n)

(***************************************************************************)
(* parseRange (main.go:168-202)                                            *)
(***************************************************************************)
\* the value mindepth and maxdepth are declared with
Unset == -1

\* the loop body without the n = -1 for an empty part: Atoi's 0 is stored
RangePartKeepZero(st, i, part) ==
    LET a == Atoi(part)
    IN  IF st.err THEN st
        ELSE IF a.err /\ part # <<>> THEN [st EXCEPT !.err = TRUE]
        ELSE IF i = 1 THEN [st EXCEPT !.min = a.n]
        ELSE [st EXCEPT !.max = a.n]

\* one iteration of the loop over the parts (main.go:185-199)
RangePart(st, i, part) ==
    LET a == Atoi(part)
        n == IF a.err THEN -1 ELSE a.n
    IN  IF st.err THEN st
        ELSE IF a.err /\ part # <<>> THEN [st EXCEPT !.err = TRUE]
        ELSE IF i = 1 THEN [st EXCEPT !.min = n]
        ELSE [st EXCEPT !.max = n]

parseRange(r, min0, max0) ==
    LET parts == Split(r, ",")
        st0   == [err |-> FALSE, min |-> min0, max |-> max0]
    IN  IF r = <<>> THEN st0
        ELSE IF Len(parts) < 1
             THEN LET a == Atoi(r)
                  IN  [err |-> a.err, min |-> min0, max |-> a.n]
        ELSE IF Len(parts) > 2 THEN [st0 EXCEPT !.err = TRUE]
        ELSE IF Len(parts) = 1 THEN RangePart(st0, 1, parts[1])
        ELSE RangePart(RangePart(st0, 1, parts[1]), 2, parts[2])

(***************************************************************************)
(* The file system the walk runs on, with the working directory at "/":    *)
(*     /  a/  a/b/  a/b/g   f                                              *)
(* b belongs to a uid the user database does not know.                     *)
(***************************************************************************)
NoNode == "none"

Nodes == {"/", "a", "b", "g", "f"}

IsDir(n) == n \in {"/", "a", "b"}

\* directory entries in the order readDirNames sorts them
Kids(n) == CASE n = "/" -> <<"a", "f">>
             [] n = "a" -> <<"b">>
             [] n = "b" -> <<"g">>
             [] OTHER   -> <<>>

Parent(n) == CASE n = "a" -> "/"
               [] n = "f" -> "/"
               [] n = "b" -> "a"
               [] n = "g" -> "b"
               [] OTHER   -> NoNode

\* permission bits: 0755 = 493, 0644 = 420
PermBits(n) == IF n = "f" THEN 420 ELSE 493

FileSize(n) == IF n = "f" THEN 42 ELSE IF n = "g" THEN 7 ELSE 0

ModTime(n) == IF n = "f" THEN 5 ELSE 3

AccTime(n) == 9

Uid(n) == IF n = "b" THEN 7 ELSE 0

\* user.LookupId: uid 0 is root, any other uid is unknown
LookupId(uid) == IF uid = 0
                 THEN [err |-> FALSE, Uid |-> <<"0">>, Gid |-> <<"0">>,
                       Name |-> <<"r", "o", "o", "t">>]
                 ELSE [err |-> TRUE, Uid |-> <<>>, Gid |-> <<>>, Name |-> <<>>]

\* number of directories between the node and "/"
RECURSIVE Level(_)
Level(n) == IF n = "/" THEN 0 ELSE 1 + Level(Parent(n))

RECURSIVE IsAncestor(_, _)
IsAncestor(a, n) == n # "/" /\ (Parent(n) = a \/ IsAncestor(a, Parent(n)))

\* the path elements that name something: "" and "." name nothing
Components(p) == SelectSeq(Split(p, SEP), LAMBDA c : c # <<>> /\ c # <<".">>)

RECURSIVE Descend(_, _)
Descend(n, comps) ==
    IF comps = <<>> THEN n
    ELSE IF comps[1] = <<"/">> \/ Len(comps[1]) # 1 THEN NoNode
    ELSE IF \E i \in 1..Len(Kids(n)) : Kids(n)[i] = comps[1][1]
         THEN Descend(comps[1][1], Tail(comps))
         ELSE NoNode

\* os.Lstat: the node a path names, if any
Lstat(p) == IF p = <<>> THEN NoNode ELSE Descend("/", Components(p))

\* filepath.Clean on paths without "..": drop empty and "." elements
Clean(p) ==
    LET body == JoinWith(Components(p), SEP)
    IN  IF HasPrefix(p, SEP) THEN <<SEP>> \o body
        ELSE IF body = <<>> THEN <<".">>
        ELSE body

\* filepath.Join(dir, name) as filepath.Walk calls it: the result is cleaned
Join(dir, name) == Clean(dir \o <<SEP>> \o name)

\* fs.FileInfo.Name(): the last element of the path Lstat was given
InfoName(p) ==
    LET c == SelectSeq(Split(p, SEP), LAMBDA x : x # <<>>)
    IN  IF c = <<>> THEN <<SEP>> ELSE c[Len(c)]

\* fs.FileMode.Perm().String(): rwxrwxrwx with "-" for a clear bit
PermString(bits) ==
    LET letters == <<"r", "w", "x", "r", "w", "x", "r", "w", "x">>
        bit(i)  == (bits \div (2 ^ (9 - i))) % 2
    IN  [i \in 1..9 |-> IF bit(i) = 1 THEN letters[i] ELSE "-"]

(***************************************************************************)
(* runCmd (main.go:139-163).  The scanner returns one token per character: *)
(* with Whitespace cleared and Mode = ScanChars only a single quote starts *)
(* a longer token, and templates are drawn without quotes.                 *)
(***************************************************************************)
EOF == "EOF"

\* s.Peek() when the next unread character is t[i]
PeekAt(t, i) == IF i <= Len(t) THEN t[i] ELSE EOF

\* the loop of main.go:145-155; i is the position s.Scan() reads next
RECURSIVE ExpandLoop(_, _, _, _)
ExpandLoop(t, i, path, sb) ==
    IF i > Len(t) THEN sb
    ELSE LET tok == t[i] IN
         IF tok = "\\" /\ PeekAt(t, i + 1) = "%"
         THEN ExpandLoop(t, i + 2, path, Append(sb, "%"))
         ELSE IF tok # "\\" /\ PeekAt(t, i + 1) = "%"
         THEN ExpandLoop(t, i + 3, path, sb \o path)
         ELSE ExpandLoop(t, i + 1, path, Append(sb, tok))

\* the command line runCmd hands to /bin/sh -c
runCmd(t, path) == ExpandLoop(t, 1, path, <<>>)

(***************************************************************************)
(* printPath (main.go:90-136) without a command.  With Mode = ScanStrings  *)
(* only a double quote starts a longer token, and formats are drawn        *)
(* without one.                                                            *)
(***************************************************************************)
OwnerCodes == {"U", "G", "M", "a"}

FieldCodes == OwnerCodes \cup {"m", "n", "s", "p", "x"}

\* what one token prints (main.go:99-129), on a system where info.Sys() is a
\* *syscall.Stat_t; err when the owner lookup fails
Render(tok, path, n) ==
    LET u == LookupId(Uid(n)) IN
    CASE tok \in OwnerCodes ->
             IF u.err THEN [err |-> TRUE, out |-> <<>>]
             ELSE [err |-> FALSE,
                   out |-> CASE tok = "U" -> u.Uid
                             [] tok = "G" -> u.Gid
                             [] tok = "M" -> u.Name
                             [] tok = "a" -> Itoa(AccTime(n))]
      [] tok = "m" -> [err |-> FALSE, out |-> Itoa(ModTime(n))]
      [] tok = "n" -> [err |-> FALSE, out |-> InfoName(path)]
      [] tok = "s" -> [err |-> FALSE, out |-> Itoa(FileSize(n))]
      [] tok = "p" -> [err |-> FALSE, out |-> path]
      [] tok = "x" -> [err |-> FALSE, out |-> PermString(PermBits(n))]
      [] OTHER     -> [err |-> FALSE, out |-> <<tok>>]

\* the separator after token i (main.go:130-132)
Separator(fmt, i) == IF PeekAt(fmt, i + 1) # EOF THEN <<" ">> ELSE <<>>

\* the loop of main.go:98-133, then the newline; out is what reached stdout
RECURSIVE FormatLoop(_, _, _, _, _)
FormatLoop(fmt, i, path, n, out) ==
    IF i > Len(fmt) THEN [err |-> FALSE, out |-> Append(out, "\n")]
    ELSE LET r == Render(fmt[i], path, n) IN
         IF r.err THEN [err |-> TRUE, out |-> out]
         ELSE FormatLoop(fmt, i + 1, path, n, out \o r.out \o Separator(fmt, i))

Format(fmt, path, n) == FormatLoop(fmt, 1, path, n, <<>>)

\* printPath: what it returns, writes to stdout and hands to the shell (what
\* the command itself prints is not part of the model)
printPath(c, fmt, path, n) ==
    IF c # <<>>
    THEN [err |-> FALSE, out |-> <<>>, sh |-> <<runCmd(c, path)>>]
    ELSE LET f == Format(fmt, path, n)
         IN  [err |-> f.err, out |-> f.out, sh |-> <<>>]

(***************************************************************************)
(* main (main.go:31-87) and the callback it hands to filepath.Walk         *)
(***************************************************************************)
\* main.go:64: the depth of a path is the number of separators in it beyond
\* those of the root argument
Depth(path) == Count(path, SEP) - rootdepth

\* the depth test with the right end left out
DepthOKExclusive(depth) ==
    LET min == IF mindepth < 0 THEN depth ELSE mindepth
        max == IF maxdepth < 0 THEN depth ELSE maxdepth
    IN  ~(depth < min \/ depth >= max)

\* main.go:65-76: a negative bound is replaced by the depth itself
DepthOK(depth) ==
    LET min == IF mindepth < 0 THEN depth ELSE mindepth
        max == IF maxdepth < 0 THEN depth ELSE maxdepth
    IN  ~(depth < min \/ depth > max)

\* main.go:77-79: -d drops non-directories, -f drops directories
KindOK(n) == ~((~IsDir(n) /\ dirFlag) \/ (IsDir(n) /\ fileFlag))

\* the anonymous WalkFunc of main.go:59-81: what it returns and what it did
WalkFn(path, n, err) ==
    LET skip(d) == [failed |-> FALSE, err |-> FALSE, depth |-> d, printed |-> FALSE,
                    out |-> <<>>, sh |-> <<>>]
        p       == printPath(cmd, statfmtFlag, path, n)
    IN  IF err
        THEN [failed |-> TRUE, err |-> TRUE, depth |-> 0, printed |-> FALSE,
              out |-> <<>>, sh |-> <<>>]
        ELSE IF ~DepthOK(Depth(path)) THEN skip(Depth(path))
        ELSE IF ~KindOK(n) THEN skip(Depth(path))
        ELSE [failed |-> FALSE, err |-> p.err, depth |-> Depth(path), printed |-> TRUE,
              out |-> p.out, sh |-> p.sh]

\* the record kept of one invocation of the callback
Visit(i, path, n, r) ==
    [arg |-> i, path |-> path, node |-> n, failed |-> r.failed, err |-> r.err,
     depth |-> r.depth, printed |-> r.printed, out |-> r.out, sh |-> r.sh]

\* the entries of a directory as filepath.Walk names them (Join cleans)
Frames(path, n) == [k \in 1..Len(Kids(n)) |->
                       [path |-> Join(path, <<Kids(n)[k]>>), node |-> Kids(n)[k]]]

\* main.go:54-57: one trailing separator is trimmed unless the argument is "/"
TrimRoot(arg) == IF HasSuffix(arg, SEP) /\ Len(arg) > 1
                 THEN SubSeq(arg, 1, Len(arg) - 1) ELSE arg

\* the index of the first argument that is or begins with "!", 0 if none
BangAt(as) == IF \E n \in 1..Len(as) : HasPrefix(as[n], "!")
              THEN CHOOSE n \in 1..Len(as) :
                       /\ HasPrefix(as[n], "!")
                       /\ \A m \in 1..(n - 1) : ~HasPrefix(as[m], "!")
              ELSE 0

\* main.go:36-46: the usage check, then parseRange
ParseRange ==
    /\ pc = "parse"
    /\ LET r == parseRange(rangeFlag, mindepth, maxdepth) IN
       IF Len(osArgs) < 1
       THEN pc' = "exit1" /\ UNCHANGED <<mindepth, maxdepth>>
       ELSE /\ mindepth' = r.min
            /\ maxdepth' = r.max
            /\ pc' = IF r.err THEN "exit1" ELSE "split"
    /\ UNCHANGED <<rangeFlag, statfmtFlag, dirFlag, fileFlag, exeFlag, osArgs, args,
                   cmd, argi, rootdepth, stack, unreadable, stdout, shell, visited>>

\* main.go:47-53: everything right of the first "!" argument is the command
SplitArgs ==
    /\ pc = "split"
    /\ LET n == BangAt(osArgs) IN
       IF n = 0
       THEN args' = osArgs /\ cmd' = cmd
       ELSE /\ cmd' = JoinWith(SubSeq(osArgs, n + 1, Len(osArgs)), " ")
            /\ args' = SubSeq(osArgs, 1, n - 1)
    /\ argi' = 1
    /\ pc' = "roots"
    /\ UNCHANGED <<rangeFlag, statfmtFlag, dirFlag, fileFlag, exeFlag, osArgs,
                   mindepth, maxdepth, rootdepth, stack, unreadable, stdout, shell,
                   visited>>

\* main.go:54-59: the next root; filepath.Walk stats it and, when that fails,
\* hands the error to the callback, whose return value ends the program
\* (main.go:81-85)
StartRoot ==
    /\ pc = "roots"
    /\ argi <= Len(args)
    /\ LET arg == TrimRoot(args[argi])
           n   == Lstat(arg)
       IN  /\ rootdepth' = Count(arg, SEP)
           /\ IF n = NoNode
              THEN /\ visited' = Append(visited,
                          [arg |-> argi, path |-> arg, node |-> NoNode, failed |-> TRUE,
                           err |-> TRUE, depth |-> 0, printed |-> FALSE, out |-> <<>>,
                           sh |-> <<>>])
                   /\ stack' = <<>>
                   /\ pc' = "exit1"
              ELSE /\ visited' = visited
                   /\ stack' = <<[path |-> arg, node |-> n]>>
                   /\ pc' = "walk"
    /\ UNCHANGED <<rangeFlag, statfmtFlag, dirFlag, fileFlag, exeFlag, osArgs, args,
                   cmd, mindepth, maxdepth, argi, unreadable, stdout, shell>>

\* filepath.Walk hands the next entry to the callback: a directory is listed
\* first and a failed listing is the callback's err; an error the callback
\* returns ends the walk and the program (main.go:81-85); otherwise the walk
\* goes into a directory that was listed, and on to the next root at the end
VisitEntry ==
    /\ pc = "walk"
    /\ stack # <<>>
    /\ LET e       == Head(stack)
           listErr == IsDir(e.node) /\ e.node \in unreadable
           r       == WalkFn(e.path, e.node, listErr)
           rest    == IF IsDir(e.node) /\ ~listErr
                      THEN Frames(e.path, e.node) \o Tail(stack)
                      ELSE Tail(stack)
       IN  /\ visited' = Append(visited, Visit(argi, e.path, e.node, r))
           /\ stdout' = stdout \o r.out
           /\ shell' = shell \o r.sh
           /\ IF r.err
              THEN stack' = <<>> /\ pc' = "exit1" /\ argi' = argi
              ELSE /\ stack' = rest
                   /\ pc' = IF rest = <<>> THEN "roots" ELSE "walk"
                   /\ argi' = IF rest = <<>> THEN argi + 1 ELSE argi
    /\ UNCHANGED <<rangeFlag, statfmtFlag, dirFlag, fileFlag, exeFlag, osArgs, args,
                   cmd, mindepth, maxdepth, rootdepth, unreadable>>

\* main.go:86-87: no root is left and main returns
Finish ==
    /\ pc = "roots"
    /\ argi > Len(args)
    /\ pc' = "done"
    /\ UNCHANGED <<rangeFlag, statfmtFlag, dirFlag, fileFlag, exeFlag, osArgs, args,
                   cmd, mindepth, maxdepth, argi, rootdepth, stack, unreadable,
                   stdout, shell, visited>>

(***************************************************************************)
(* The invocations a run starts from                                       *)
(***************************************************************************)
\* root arguments: a directory, with a trailing separator, with a leading
\* "./", the working directory, the file system root, and a missing name
RootForms == {<<"a">>, <<"a", "/">>, <<".", "/", "a">>, <<".">>, <<"/">>, <<"n">>}

\* one root or two
RootLists == {<<r>> : r \in RootForms} \cup {<<r, s>> : r \in RootForms, s \in RootForms}

\* -e and "! cmd": the default format, a format with an owner field, a command
Modes == {[fmt |-> <<"p">>, tail |-> <<>>],
          [fmt |-> <<"U", "n">>, tail |-> <<>>],
          [fmt |-> <<"p">>, tail |-> <<<<"!">>, <<"e">>, <<"%">>>>]}

\* the text of one side of "min,max"
BoundTexts == {<<>>} \cup {Itoa(k) : k \in 0..MaxBound}

\* -n values: absent, bare numbers, every "min,max", a negative bound, and two
\* malformed ones
RangeSpecs == {<<>>, <<"x">>, <<"0", ",", "1", ",", "2">>, <<"0", ",", "-", "1">>}
                  \cup {Itoa(k) : k \in 0..MaxBound}
                  \cup {a \o <<",">> \o b : a \in BoundTexts, b \in BoundTexts}

\* the state flag.Parse leaves behind, before main has done anything
Idle ==
    /\ args = <<>>
    /\ cmd = <<>>
    /\ mindepth = Unset
    /\ maxdepth = Unset
    /\ argi = 0
    /\ rootdepth = 0
    /\ stack = <<>>
    /\ stdout = <<>>
    /\ shell = <<>>
    /\ visited = <<>>

Init ==
    /\ pc = "parse"
    /\ rangeFlag \in RangeSpecs
    /\ \E m \in Modes, rs \in RootLists \cup {<<>>} :
           /\ statfmtFlag = m.fmt
           /\ osArgs = rs \o m.tail
    /\ dirFlag \in BOOLEAN
    /\ fileFlag \in BOOLEAN
    /\ exeFlag \in BOOLEAN
    /\ unreadable \in {{}, {"b"}}
    /\ Idle

Next == ParseRange \/ SplitArgs \/ StartRoot \/ VisitEntry \/ Finish

Spec == Init /\ [][Next]_vars

(***************************************************************************)
(* The parser on its own: every -n value up to MaxSpecLen characters       *)
(***************************************************************************)
RangeAlphabet == {"-", "0", "1", "2", ",", "x"}

InitRange ==
    /\ pc = "parse"
    /\ rangeFlag \in SeqsUpTo(RangeAlphabet, MaxSpecLen)
    /\ statfmtFlag = <<"p">>
    /\ osArgs = <<<<"a">>>>
    /\ dirFlag = FALSE
    /\ fileFlag = FALSE
    /\ exeFlag = FALSE
    /\ unreadable = {}
    /\ Idle

SpecRange == InitRange /\ [][ParseRange]_vars

(***************************************************************************)
(* The command expansion: walk a ! <template>, for every template up to    *)
(* MaxTplLen characters and the two templates of the documentation         *)
(***************************************************************************)
TplAlphabet == {"e", " ", "%", "\\"}

EchoPercent == <<"e", "c", "h", "o", " ", "%">>

EchoEscaped == <<"e", "c", "h", "o", " ", "\\", "%">>

Templates == SeqsUpTo(TplAlphabet, MaxTplLen) \cup {EchoPercent, EchoEscaped}

InitCmd ==
    /\ pc = "parse"
    /\ rangeFlag = <<>>
    /\ statfmtFlag = <<"p">>
    /\ \E t \in Templates : osArgs = <<<<"a">>, <<"!">>, t>>
    /\ dirFlag = FALSE
    /\ fileFlag = FALSE
    /\ exeFlag = FALSE
    /\ unreadable = {}
    /\ Idle

SpecCmd == InitCmd /\ [][Next]_vars

(***************************************************************************)
(* The renderer: walk -e <format> on a file and on a directory tree, for   *)
(* every format up to MaxFmtLen characters                                 *)
(***************************************************************************)
FmtAlphabet == {"U", "n", "s", "p", ":"}

InitFmt ==
    /\ pc = "parse"
    /\ rangeFlag = <<>>
    /\ statfmtFlag \in SeqsUpTo(FmtAlphabet, MaxFmtLen)
    /\ osArgs \in {<<<<"f">>>>, <<<<"a">>>>}
    /\ dirFlag = FALSE
    /\ fileFlag = FALSE
    /\ exeFlag = FALSE
    /\ unreadable = {}
    /\ Idle

SpecFmt == InitFmt /\ [][Next]_vars

(***************************************************************************)
(* Properties                                                              *)
(***************************************************************************)
Records == {visited[i] : i \in 1..Len(visited)}

\* an entry passes -d and -f
PassesKind(n) == (IsDir(n) \/ ~dirFlag) /\ (~IsDir(n) \/ ~fileFlag)

\* a bound as the filter reads it: a negative value stands for "unset"
IsUnset(b) == b < 0

C2_DepthPerLevel ==
    \A r, v \in Records :
        (/\ r.arg = v.arg
         /\ ~r.failed /\ ~v.failed
         /\ r.path = TrimRoot(args[r.arg]))
            => v.depth = r.depth + (Level(v.node) - Level(r.node))

\* C3: with a max depth set, nothing below a directory whose depth exceeds
\* the max is handed to the callback.
C3_NoDescent ==
    ~IsUnset(maxdepth) =>
        \A d, v \in Records :
            (/\ d.arg = v.arg
             /\ ~d.failed /\ IsDir(d.node) /\ d.depth > maxdepth)
                => ~IsAncestor(d.node, v.node)

\* at least one of the three executable bits is set
HasExecBit(n) == \E k \in {0, 3, 6} : (PermBits(n) \div (2 ^ k)) % 2 = 1

\* C7: with -x no entry without an executable bit (rw-r--r--) reaches
\* printPath, and every rwxr-xr-x entry that passes the depth and type
\* filters does.
C7_ExecOnly ==
    exeFlag =>
        \A v \in Records :
            /\ v.printed => HasExecBit(v.node)
            /\ (/\ ~v.failed /\ PermBits(v.node) = 493
                /\ PassesKind(v.node) /\ DepthOK(v.depth)) => v.printed

\* the entries under a root argument as the walk names them, a directory
\* before what it holds; a directory that cannot be listed is left out with
\* all it holds
RECURSIVE Entries(_, _)
Entries(path, n) ==
    IF IsDir(n) /\ n \in unreadable THEN <<>>
    ELSE <<[path |-> path, node |-> n]>>
             \o Flatten([k \in 1..Len(Kids(n)) |->
                            Entries(Join(path, <<Kids(n)[k]>>), Kids(n)[k])])

Missing(arg) == Lstat(TrimRoot(arg)) = NoNode

\* C9: when a root does not exist, every entry under every later root that
\* exists, and that passes the filters, has reached printPath by the time
\* the program ends.
C9_LaterRoots ==
    pc \in {"done", "exit1"} =>
        \A k, j \in 1..Len(args) :
            (k < j /\ Missing(args[k]) /\ ~Missing(args[j])) =>
                LET root == TrimRoot(args[j])
                    es   == Entries(root, Lstat(root))
                IN  \A x \in 1..Len(es) :
                        (/\ PassesKind(es[x].node)
                         /\ LET d == Count(es[x].path, SEP) - Count(root, SEP)
                            IN  /\ IsUnset(mindepth) \/ mindepth <= d
                                /\ IsUnset(maxdepth) \/ d <= maxdepth)
                            => \E v \in Records :
                                   v.arg = j /\ v.node = es[x].node /\ v.printed

\* the format asks for a field that needs the owner looked up
WantsOwner == \E i \in 1..Len(statfmtFlag) : statfmtFlag[i] \in OwnerCodes

\* C10: when the owner lookup fails while a line is rendered, the line is
\* still completed with a newline and the walk is not ended by it.
C10_LookupFailure ==
    \A i \in 1..Len(visited) :
        LET v == visited[i] IN
        (v.printed /\ cmd = <<>> /\ WantsOwner /\ LookupId(Uid(v.node)).err)
            => /\ v.out # <<>> /\ v.out[Len(v.out)] = "\n"
               /\ ~v.err
               /\ ~(pc = "exit1" /\ i = Len(visited))

\* the integers whose text a -n value of the enumerated length can hold
ClaimInts == -22..22

\* their decimal text
IntText == [n \in ClaimInts |-> Itoa(n)]

\* C4: a -n value that is a bare integer n sets min = 0 and max = n, as
\* "0,n" does.
C4_BareNumber ==
    \A n \in ClaimInts :
        (pc # "parse" /\ rangeFlag = IntText[n])
            => (pc = "split" /\ mindepth = 0 /\ maxdepth = n)

\* C8: for all signed integers a and b, "a,b" sets (a, b), "a," sets
\* (a, unset), ",b" sets (unset, b), and the empty value sets (unset, unset),
\* unset being the value the two variables are declared with.
C8_CommaForms ==
    pc # "parse" =>
        /\ rangeFlag = <<>> => (pc = "split" /\ mindepth = Unset /\ maxdepth = Unset)
        /\ \A a \in ClaimInts :
               /\ rangeFlag = IntText[a] \o <<",">>
                      => (pc = "split" /\ mindepth = a /\ maxdepth = Unset)
               /\ rangeFlag = <<",">> \o IntText[a]
                      => (pc = "split" /\ mindepth = Unset /\ maxdepth = a)
               /\ \A b \in ClaimInts :
                      rangeFlag = IntText[a] \o <<",">> \o IntText[b]
                          => (pc = "split" /\ mindepth = a /\ maxdepth = b)

\* "-2,1" was parsed: a negative min and a positive max, both stored as written
C8_Witness ==
    /\ pc = "split"
    /\ rangeFlag = <<"-", "2", ",", "1">>
    /\ mindepth = -2
    /\ maxdepth = 1

\* the placeholder rule as documented: "\%" gives "%", any other "%" gives
\* the path, every other character is copied
RECURSIVE Substitute(_, _)
Substitute(t, path) ==
    IF t = <<>> THEN <<>>
    ELSE IF Len(t) >= 2 /\ t[1] = "\\" /\ t[2] = "%"
         THEN <<"%">> \o Substitute(SubSeq(t, 3, Len(t)), path)
    ELSE IF t[1] = "%" THEN path \o Substitute(Tail(t), path)
    ELSE <<t[1]>> \o Substitute(Tail(t), path)

\* C5: the command line run for an entry is the template with each unescaped
\* "%" replaced by the entry's path, each "\%" by "%", and every other
\* character, those next to a placeholder included, copied unchanged.
C5_Expansion ==
    \A v \in Records :
        (v.printed /\ cmd # <<>>) => v.sh = <<Substitute(cmd, v.path)>>

\* the separator rule as documented: a space after a field code that is not
\* the last token, nothing after a literal character, a newline at the end
RECURSIVE Columns(_, _, _, _)
Columns(fmt, i, path, n) ==
    IF i > Len(fmt) THEN <<"\n">>
    ELSE (IF fmt[i] \in FieldCodes
          THEN Render(fmt[i], path, n).out
                   \o (IF i < Len(fmt) THEN <<" ">> ELSE <<>>)
          ELSE <<fmt[i]>>)
             \o Columns(fmt, i + 1, path, n)

\* C6: what printPath writes for an entry is one line ending in a newline,
\* each field code's rendering followed by one space unless it is the last
\* token, each literal character echoed with nothing added after it.
C6_Line ==
    \A v \in Records :
        (v.printed /\ cmd = <<>>) => v.out = Columns(statfmtFlag, 1, v.path, v.node)

====
